---- MODULE Spec2Model ----
(***************************************************************************)
(* Generic pagination and CRUD dispatch of app/services over the three     *)
(* document kinds User, Article and Comment (app/models).                  *)
(*                                                                         *)
(* The document store is modelled as one sequence of documents per         *)
(* collection, in insertion (natural) order.  str values are sequences of  *)
(* one-character strings, so that lengths and strip() are computed.        *)
(* A dict is a function from field names to values; None and {} for the    *)
(* filters argument are both the empty map (the code only tests their      *)
(* truthiness).  datetimes are ticks of a logical clock.                   *)
(***************************************************************************)
EXTENDS Integers, Sequences, FiniteSets, TLC

(* The field names of the documents, arguments and results, in the one     *)
(* order in which every record of this module writes its fields.           *)
FieldOrder ==
  [_id |-> 1, id |-> 2, username |-> 3, email |-> 4, age |-> 5,
   is_active |-> 6, title |-> 7, article |-> 8, author |-> 9,
   content |-> 10, status |-> 11, published_at |-> 12, created_at |-> 13,
   updated_at |-> 14, view_count |-> 15, is_deleted |-> 16,
   is_edited |-> 17, parent_comment |-> 18,
   tag |-> 19, ok |-> 20, op |-> 21, kind |-> 22, items |-> 23, page |-> 24,
   limit |-> 25, total |-> 26, filters |-> 27, item_id |-> 28,
   update_data |-> 29, update_method |-> 30, obj_in |-> 31, single |-> 32,
   error |-> 33, docs |-> 34, store |-> 35, nextId |-> 36, ret |-> 37,
   err |-> 38, result |-> 39, item |-> 40, inserted_ids |-> 41,
   value |-> 42, type |-> 43, matched |-> 44,
   User |-> 45, Article |-> 46, Comment |-> 47]

VARIABLES store, nextId, clock, pre, call, ret

vars == <<store, nextId, clock, pre, call, ret>>

-----------------------------------------------------------------------------
(* Bounds of the model *)

MaxDocs == 3        \* documents per collection
MaxOps == 3         \* calls in one behaviour (ticks of the clock)
MaxBatch == 3       \* field-maps in one create([...]) call
MaxPage == 3        \* page numbers 1..MaxPage
MaxLimit == 2       \* limits 1..MaxLimit

-----------------------------------------------------------------------------
(* Values *)

Kinds == {"User", "Article", "Comment"}

NoId == 0           \* item_id = None, parent_comment = None
NoTime == 0         \* a datetime field that is None

EmptyMap == [f \in {} |-> 0]

NoMethod == "None"  \* update_method = None

IsTruthy(d) == DOMAIN d # {}

\* str.strip(): leading and trailing blanks removed
RECURSIVE LStrip(_)
LStrip(s) == IF s # <<>> /\ Head(s) = " " THEN LStrip(Tail(s)) ELSE s

RECURSIVE RStrip(_)
RStrip(s) ==
    IF s # <<>> /\ s[Len(s)] = " " THEN RStrip(SubSeq(s, 1, Len(s) - 1)) ELSE s

Strip(s) == RStrip(LStrip(s))

DeletedPlaceholder ==
    << "[", "T", "h", "i", "s", " ", "c", "o", "m", "m", "e", "n", "t", " ",
       "h", "a", "s", " ", "b", "e", "e", "n", " ",
       "d", "e", "l", "e", "t", "e", "d", "]" >>

-----------------------------------------------------------------------------
(* Field constraints of the document kinds *)

UsernameMin == 3
UsernameMax == 50
AgeMin == 13
AgeMax == 120
TitleMax == 200
ContentMax == 1000

ArticleStatus == {"draft", "published", "archived"}

\* pydantic validation of the keyword arguments of User(**m)
UserValid(m) ==
    /\ {"username", "email", "age"} \subseteq DOMAIN m
    /\ Len(m.username) >= UsernameMin
    /\ Len(m.username) <= UsernameMax
    /\ m.age >= AgeMin
    /\ m.age <= AgeMax

\* pydantic validation of the keyword arguments of Article(**m)
ArticleValid(m) ==
    /\ {"title", "author", "content"} \subseteq DOMAIN m
    /\ Len(m.title) >= 1
    /\ Len(m.title) <= TitleMax
    /\ Len(m.content) >= 1
    /\ ("status" \in DOMAIN m => m.status \in ArticleStatus)

\* Comment.validate_content: the stripped content, or <<"ValueError">>
validate_content(v) ==
    IF v # <<>>
    THEN LET cleaned_content == Strip(v)
         IN  IF cleaned_content = <<>>
             THEN [ok |-> FALSE, value |-> <<>>]
             ELSE [ok |-> TRUE, value |-> cleaned_content]
    ELSE [ok |-> FALSE, value |-> <<>>]

\* pydantic validation of the keyword arguments of Comment(**m)
CommentValid(m) ==
    /\ {"article", "author", "content"} \subseteq DOMAIN m
    /\ Len(m.content) >= 1
    /\ Len(m.content) <= ContentMax
    /\ validate_content(m.content).ok

Valid(kind, m) ==
    CASE kind = "User" -> UserValid(m)
      [] kind = "Article" -> ArticleValid(m)
      [] kind = "Comment" -> CommentValid(m)

IdOf(m) == IF "_id" \in DOMAIN m THEN m._id ELSE NoId

\* User(**m): the document built from a valid field-map at time now
NewUser(m, now) ==
    [id |-> IdOf(m), username |-> m.username, email |-> m.email, age |-> m.age,
     is_active |-> TRUE, created_at |-> now, updated_at |-> NoTime]

\* Article(**m)
NewArticle(m, now) ==
    [id |-> IdOf(m), title |-> m.title, author |-> m.author,
     content |-> m.content,
     status |-> IF "status" \in DOMAIN m THEN m.status ELSE "draft",
     published_at |-> NoTime, created_at |-> now, updated_at |-> NoTime,
     view_count |-> 0]

\* Comment(**m)
NewComment(m, now) ==
    [id |-> IdOf(m), article |-> m.article, author |-> m.author,
     content |-> validate_content(m.content).value, created_at |-> now,
     updated_at |-> NoTime, is_deleted |-> FALSE, is_edited |-> FALSE,
     parent_comment |->
         IF "parent_comment" \in DOMAIN m THEN m.parent_comment ELSE NoId]

New(kind, m, now) ==
    CASE kind = "User" -> NewUser(m, now)
      [] kind = "Article" -> NewArticle(m, now)
      [] kind = "Comment" -> NewComment(m, now)

\* A stored document satisfies the field constraints of its kind
DocValid(kind, d) ==
    CASE kind = "User" ->
            /\ Len(d.username) >= UsernameMin /\ Len(d.username) <= UsernameMax
            /\ d.age >= AgeMin /\ d.age <= AgeMax
      [] kind = "Article" ->
            /\ Len(d.title) >= 1 /\ Len(d.title) <= TitleMax
            /\ Len(d.content) >= 1
            /\ d.status \in ArticleStatus
            /\ d.view_count >= 0
      [] kind = "Comment" ->
            /\ Len(d.content) >= 1 /\ Len(d.content) <= ContentMax
            /\ Strip(d.content) # <<>>

-----------------------------------------------------------------------------
(* before_event([Insert, Update]) hooks and lifecycle methods *)

\* User.update_timestamp
User_update_timestamp(d, now) == [d EXCEPT !.updated_at = now]

\* Article.update
Article_update(d, now) ==
    LET d1 == [d EXCEPT !.updated_at = now]
    IN  IF d1.status = "published" /\ d1.published_at = NoTime
        THEN [d1 EXCEPT !.published_at = now]
        ELSE d1

\* Comment.update_timestamp
Comment_update_timestamp(d, now) ==
    LET d1 == IF d.created_at # NoTime THEN [d EXCEPT !.is_edited = TRUE] ELSE d
    IN  [d1 EXCEPT !.updated_at = now]

before_event(kind, d, now) ==
    CASE kind = "User" -> User_update_timestamp(d, now)
      [] kind = "Article" -> Article_update(d, now)
      [] kind = "Comment" -> Comment_update_timestamp(d, now)

\* soft_delete that sets the flag and leaves the content as it was
soft_delete_keeps_content(d) == [d EXCEPT !.is_deleted = TRUE]

\* Comment.soft_delete
soft_delete(d) ==
    [d EXCEPT !.is_deleted = TRUE, !.content = DeletedPlaceholder]

\* Article.increment_view_count
increment_view_count(d) == [d EXCEPT !.view_count = @ + 1]

-----------------------------------------------------------------------------
(* The document store: find, count, skip, limit, insert *)

Min(a, b) == IF a <= b THEN a ELSE b

\* A document matches a filter dict when it has every filtered field with
\* the filtered value; the empty filter matches every document
Matches(d, filters) ==
    \A k \in DOMAIN filters : k \in DOMAIN d /\ d[k] = filters[k]

\* model.find(filters) / model.find_many(filters): the matching documents
\* in the collection's order
RECURSIVE find(_, _)
find(docs, filters) ==
    IF docs = <<>> THEN <<>>
    ELSE IF Matches(Head(docs), filters)
         THEN <<Head(docs)>> \o find(Tail(docs), filters)
         ELSE find(Tail(docs), filters)

\* Comment.replies: the back link over parent_comment, resolved as the
\* comments of the collection whose parent_comment is the given identifier
replies(docs, id) == find(docs, [parent_comment |-> id])

\* query.count()
count(docs) == Len(docs)

\* query.skip(n): the cursor moves past the first n documents
RECURSIVE skip(_, _)
skip(docs, n) ==
    IF n = 0 \/ docs = <<>> THEN docs ELSE skip(Tail(docs), n - 1)

RECURSIVE take(_, _)
take(docs, n) ==
    IF n = 0 \/ docs = <<>> THEN <<>>
    ELSE <<Head(docs)>> \o take(Tail(docs), n - 1)

\* query.limit(n): the cursor stops after n documents (0 is no limit)
limit(docs, n) == IF n = 0 THEN docs ELSE take(docs, n)

Ids(docs) == {docs[i].id : i \in 1..Len(docs)}

\* get with the window starting one page late: skip = page * limit
get_skip_page_times_limit(docs, page, lim, filters) ==
    LET skip_ == page * lim
        query == find(docs, filters)
        total == count(query)
        items == limit(skip(query, skip_), lim)
    IN  [tag |-> "PaginationResponse", items |-> items, page |-> page,
         limit |-> lim, total |-> total]

\* base_crud_services.get
get(docs, page, lim, filters) ==
    LET skip_ == (page - 1) * lim
        query == find(docs, filters)
        total == count(query)
        items == limit(skip(query, skip_), lim)
    IN  [tag |-> "PaginationResponse", items |-> items, page |-> page,
         limit |-> lim, total |-> total]

-----------------------------------------------------------------------------
(* Results of the calls *)

Raise(e) == [tag |-> "raise", error |-> e]

ReturnNone == [tag |-> "None"]

\* The local variable result before any branch has assigned it
Unbound == [type |-> "unbound", matched |-> 0]

\* bool(result): the driver's UpdateResult / DeleteResult objects and the
\* documents define neither __bool__ nor __len__, so they are truthy whatever
\* their counts
bool(result) == result.type # "NoneType"

ReturnBool(b) == [tag |-> "bool", value |-> b]

-----------------------------------------------------------------------------
(* Writes *)

\* document.insert(): the before_event hook runs, then the store assigns an
\* identifier unless the document carries one, and rejects a duplicate
insert(docs, kind, d, now, nid) ==
    LET hooked == before_event(kind, d, now)
        id == IF hooked.id = NoId THEN nid ELSE hooked.id
        stored == [hooked EXCEPT !.id = id]
    IN  IF id \in Ids(docs)
        THEN [docs |-> docs, nextId |-> nid, ret |-> Raise("DuplicateKeyError")]
        ELSE [docs |-> Append(docs, stored),
              nextId |-> IF hooked.id = NoId THEN nid + 1 ELSE nid,
              ret |-> [tag |-> "entity", item |-> stored]]

\* User.insert_many(users): an ordered bulk insert without hooks; it stops at
\* the first document the store rejects and keeps the ones before it
RECURSIVE insert_many(_, _, _, _)
insert_many(docs, users, nid, inserted_ids) ==
    IF users = <<>>
    THEN [docs |-> docs, nextId |-> nid,
          ret |-> [tag |-> "InsertManyResult", inserted_ids |-> inserted_ids]]
    ELSE LET d == Head(users)
             id == IF d.id = NoId THEN nid ELSE d.id
         IN  IF id \in Ids(docs)
             THEN [docs |-> docs, nextId |-> nid, ret |-> Raise("BulkWriteError")]
             ELSE insert_many(Append(docs, [d EXCEPT !.id = id]), Tail(users),
                              IF d.id = NoId THEN nid + 1 ELSE nid,
                              Append(inserted_ids, id))

\* base_crud_services.create with a dict: model(**obj_in) validates, then
\* model.insert() is called on the class, without a document
create_one(st, kind, obj_in, now, nid) ==
    IF ~Valid(kind, obj_in)
    THEN [store |-> st, nextId |-> nid, ret |-> Raise("ValidationError")]
    ELSE [store |-> st, nextId |-> nid, ret |-> Raise("TypeError")]

\* base_crud_services.create with a list: every item becomes a User, and
\* User.insert_many stores them in the users collection
create_many(st, kind, obj_in, now, nid) ==
    IF \E i \in 1..Len(obj_in) : ~UserValid(obj_in[i])
    THEN [store |-> st, nextId |-> nid, ret |-> Raise("ValidationError")]
    ELSE LET users == [i \in 1..Len(obj_in) |-> NewUser(obj_in[i], now)]
             r == insert_many(st["User"], users, nid, <<>>)
         IN  [store |-> [st EXCEPT !["User"] = r.docs], nextId |-> r.nextId,
              ret |-> r.ret]

-----------------------------------------------------------------------------
(* Selection by identifier: find_one(id=item_id) *)

\* The services pass the identifier to find_one as the keyword argument id.
\* It is modelled as what the services use it for (the "if item:" test, the
\* single-document update and delete): selection of the document with that
\* identifier, none when no document has it.

RECURSIVE IndexOfId(_, _, _)
IndexOfId(docs, id, i) ==
    IF i > Len(docs) THEN 0
    ELSE IF docs[i].id = id THEN i ELSE IndexOfId(docs, id, i + 1)

\* model.find_one(id=item_id): the position of the selected document in the
\* collection, 0 when there is none
find_one(docs, item_id) == IndexOfId(docs, item_id, 1)

RECURSIVE SetFields(_, _, _)
SetFields(d, update_data, fields) ==
    IF fields = {} THEN d
    ELSE LET k == CHOOSE f \in fields : TRUE
         IN  SetFields([d EXCEPT ![k] = update_data[k]], update_data,
                       fields \ {k})

\* {"$set": update_data} applied to one document, without validation: each
\* field of update_data is overwritten, the others are kept
Set(d, update_data) == SetFields(d, update_data, DOMAIN update_data)

-----------------------------------------------------------------------------
(* Lifecycle methods reachable through getattr(item, update_method) *)

\* The method names a caller passes for a kind: the ones the kind's class
\* defines and "archive", which no class defines
MethodNames(kind) ==
    CASE kind = "User" -> {"update_timestamp", "archive"}
      [] kind = "Article" -> {"increment_view_count", "archive"}
      [] kind = "Comment" -> {"update_timestamp", "soft_delete", "archive"}

\* hasattr(item, update_method)
HasMethod(kind, method) ==
    CASE kind = "User" -> method \in {"update_timestamp"}
      [] kind = "Article" -> method \in {"increment_view_count"}
      [] kind = "Comment" -> method \in {"update_timestamp", "soft_delete"}

\* async def: calling it yields an awaitable
IsCoroutine(method) == method = "update_timestamp"

\* What func() does to the document in memory
Invoke(kind, item, method, now) ==
    CASE method = "update_timestamp" /\ kind = "User" ->
            User_update_timestamp(item, now)
      [] method = "update_timestamp" /\ kind = "Comment" ->
            Comment_update_timestamp(item, now)
      [] method = "soft_delete" -> soft_delete(item)
      [] method = "increment_view_count" -> increment_view_count(item)

-----------------------------------------------------------------------------
(* base_crud_services.update *)

\* if update_method: ... (lines 67-82).  The document is changed in memory
\* only; nothing writes it back.
update_method_step(docs, kind, item_id, update_method, now) ==
    LET i == find_one(docs, item_id)
    IN  IF i = 0
        THEN [docs |-> docs, err |-> "", result |-> Unbound, item |-> <<>>]
        ELSE IF ~HasMethod(kind, update_method)
        THEN [docs |-> docs, err |-> "AttributeError", result |-> Unbound,
              item |-> <<docs[i]>>]
        ELSE LET item == Invoke(kind, docs[i], update_method, now)
             IN  IF ~IsCoroutine(update_method)
                 THEN [docs |-> docs, err |-> "TypeError",
                       result |-> Unbound, item |-> <<item>>]
                 ELSE [docs |-> docs, err |-> "",
                       result |-> [type |-> "Document", matched |-> 1],
                       item |-> <<item>>]

\* if update_data: model.find_one(id=item_id).update({"$set": update_data})
update_one_step(s, item_id, update_data) ==
    LET i == find_one(s.docs, item_id)
    IN  IF i = 0
        THEN [s EXCEPT !.result = [type |-> "UpdateResult", matched |-> 0]]
        ELSE [s EXCEPT !.docs[i] = Set(s.docs[i], update_data),
                       !.result = [type |-> "UpdateResult", matched |-> 1]]

\* if filters: model.find_many(filters).update_many({"$set": update_data})
update_many_step(s, filters, update_data) ==
    IF ~IsTruthy(update_data)
    THEN [s EXCEPT !.err = "WriteError"]
    ELSE LET hit == {i \in 1..Len(s.docs) : Matches(s.docs[i], filters)}
         IN  [s EXCEPT !.docs = [i \in 1..Len(s.docs) |->
                                    IF i \in hit THEN Set(s.docs[i], update_data)
                                    ELSE s.docs[i]],
                       !.result = [type |-> "UpdateResult",
                                   matched |-> Cardinality(hit)]]

update(docs, kind, item_id, filters, update_data, update_method, now) ==
    LET s0 == [docs |-> docs, err |-> "", result |-> Unbound, item |-> <<>>]
        s1 == IF update_method # NoMethod
              THEN update_method_step(docs, kind, item_id, update_method, now)
              ELSE s0
        s2 == IF s1.err = "" /\ IsTruthy(update_data)
              THEN update_one_step(s1, item_id, update_data)
              ELSE s1
        s3 == IF s2.err = "" /\ IsTruthy(filters)
              THEN update_many_step(s2, filters, update_data)
              ELSE s2
    IN  [docs |-> s3.docs,
         ret |-> IF s3.err # "" THEN Raise(s3.err)
                 ELSE IF IsTruthy(filters) THEN ReturnBool(bool(s3.result))
                 ELSE ReturnNone,
         item |-> s3.item]

-----------------------------------------------------------------------------
(* base_crud_services.delete *)

RemoveAt(docs, i) == SubSeq(docs, 1, i - 1) \o SubSeq(docs, i + 1, Len(docs))

RECURSIVE delete_many(_, _)
delete_many(docs, filters) ==
    IF docs = <<>> THEN <<>>
    ELSE IF Matches(Head(docs), filters)
         THEN delete_many(Tail(docs), filters)
         ELSE <<Head(docs)>> \o delete_many(Tail(docs), filters)

\* if item_id: model.find_one(id=item_id).delete()
delete_one_step(s, item_id) ==
    LET i == find_one(s.docs, item_id)
    IN  IF i = 0
        THEN [s EXCEPT !.result = [type |-> "DeleteResult", matched |-> 0]]
        ELSE [s EXCEPT !.docs = RemoveAt(s.docs, i),
                       !.result = [type |-> "DeleteResult", matched |-> 1]]

\* if filters: model.find_many(filters).delete_many()
delete_many_step(s, filters) ==
    LET rest == delete_many(s.docs, filters)
    IN  [s EXCEPT !.docs = rest,
                  !.result = [type |-> "DeleteResult",
                              matched |-> Len(s.docs) - Len(rest)]]

delete(docs, item_id, filters) ==
    LET s0 == [docs |-> docs, err |-> "", result |-> Unbound]
        s1 == IF item_id # NoId THEN delete_one_step(s0, item_id) ELSE s0
        s2 == IF s1.err = "" /\ IsTruthy(filters)
              THEN delete_many_step(s1, filters)
              ELSE s1
    IN  [docs |-> s2.docs,
         ret |-> IF s2.err # "" THEN Raise(s2.err)
                 ELSE IF s2.result = Unbound THEN Raise("UnboundLocalError")
                 ELSE ReturnBool(bool(s2.result))]

-----------------------------------------------------------------------------
(* Inputs of the calls *)

Bob == <<"b", "o", "b">>
Al == <<"a", "l">>
Hi == <<"h", "i">>
PaddedHi == <<" ", "h", "i", " ">>
Blank == <<" ", " ", " ">>

UserMap(username, age) ==
    [username |-> username, email |-> "bob@example.com", age |-> age]

UserMapWithId(id, username, age) ==
    [_id |-> id, username |-> username, email |-> "bob@example.com",
     age |-> age]

ArticleMap(title, status) ==
    [title |-> title, author |-> 1, content |-> Hi, status |-> status]

CommentMap(content, parent) ==
    IF parent = NoId
    THEN [article |-> 1, author |-> 1, content |-> content]
    ELSE [article |-> 1, author |-> 1, content |-> content,
          parent_comment |-> parent]

\* The field-maps a caller passes for a kind: valid ones, ones that break a
\* field constraint, and one that names an identifier already issued
FieldMaps(kind) ==
    CASE kind = "User" ->
            {UserMap(Bob, 30), UserMap(Bob, 34), UserMap(Bob, 5), UserMap(Al, 30)}
            \cup {UserMapWithId(i, Bob, 30) : i \in Ids(store["User"])}
      [] kind = "Article" ->
            {ArticleMap(Hi, "draft"), ArticleMap(Hi, "published"),
             ArticleMap(<<>>, "draft")}
      [] kind = "Comment" ->
            {CommentMap(Hi, p) : p \in {NoId} \cup Ids(store["Comment"])}
            \cup {CommentMap(PaddedHi, NoId), CommentMap(Blank, NoId)}

\* The field-maps of a list passed to create
BatchMaps(kind) ==
    CASE kind = "User" ->
            {UserMap(Bob, 30), UserMap(Bob, 34), UserMap(Bob, 5)}
            \cup {UserMapWithId(i, Bob, 30) : i \in Ids(store["User"])}
      [] kind = "Article" -> {ArticleMap(Hi, "draft")}
      [] kind = "Comment" -> {CommentMap(Hi, NoId)}

Batches(kind) ==
    UNION {[1..n -> BatchMaps(kind)] : n \in 1..MaxBatch}

\* Filter dicts per kind; the empty map stands for None and {}
Filters(kind) ==
    CASE kind = "User" -> {EmptyMap, [age |-> 30]}
      [] kind = "Article" -> {EmptyMap, [status |-> "draft"]}
      [] kind = "Comment" -> {EmptyMap, [is_deleted |-> FALSE]}

\* Patch dicts per kind: one that keeps the field constraints and one that
\* breaks them; the empty map stands for None
Patches(kind) ==
    CASE kind = "User" -> {EmptyMap, [age |-> 31], [age |-> 5]}
      [] kind = "Article" ->
            {EmptyMap, [status |-> "published"], [title |-> <<>>]}
      [] kind = "Comment" -> {EmptyMap, [content |-> Bob], [content |-> Blank]}

\* Identifiers a caller passes: None, those of the stored documents of the
\* kind, and one that no document has
ItemIds(kind) == {NoId, nextId} \cup Ids(store[kind])

NoCall ==
    [op |-> "none", kind |-> "User", page |-> 1, limit |-> 1, filters |-> EmptyMap,
     item_id |-> NoId, update_data |-> EmptyMap, update_method |-> NoMethod,
     obj_in |-> <<>>, single |-> FALSE]

-----------------------------------------------------------------------------
(* Actions: one per call *)

Init ==
    /\ store = [User |-> <<>>, Article |-> <<>>, Comment |-> <<>>]
    /\ nextId = 1
    /\ clock = 1
    /\ pre = store
    /\ call = NoCall
    /\ ret = ReturnNone

\* base_crud_services.get(model, page, limit, filters)
Get(kind, page, lim, filters) ==
    /\ call' = [NoCall EXCEPT !.op = "get", !.kind = kind, !.page = page,
                              !.limit = lim, !.filters = filters]
    /\ clock <= MaxOps
    /\ ret' = get(store[kind], page, lim, filters)
    /\ pre' = store
    /\ clock' = clock + 1
    /\ UNCHANGED <<store, nextId>>

\* document = Model(**obj_in); await document.insert()   (main.py)
Insert(kind, obj_in) ==
    /\ clock <= MaxOps
    /\ Len(store[kind]) < MaxDocs
    /\ call' = [NoCall EXCEPT !.op = "insert", !.kind = kind,
                              !.obj_in = <<obj_in>>, !.single = TRUE]
    /\ pre' = store
    /\ clock' = clock + 1
    /\ IF ~Valid(kind, obj_in)
       THEN /\ ret' = Raise("ValidationError")
            /\ UNCHANGED <<store, nextId>>
       ELSE LET r == insert(store[kind], kind, New(kind, obj_in, clock), clock,
                            nextId)
            IN  /\ store' = [store EXCEPT ![kind] = r.docs]
                /\ nextId' = r.nextId
                /\ ret' = r.ret

\* base_crud_services.create(model, obj_in) with a dict
CreateOne(kind, obj_in) ==
    /\ clock <= MaxOps
    /\ Len(store[kind]) < MaxDocs
    /\ call' = [NoCall EXCEPT !.op = "create", !.kind = kind,
                              !.obj_in = <<obj_in>>, !.single = TRUE]
    /\ pre' = store
    /\ clock' = clock + 1
    /\ LET r == create_one(store, kind, obj_in, clock, nextId)
       IN  /\ store' = r.store
           /\ nextId' = r.nextId
           /\ ret' = r.ret

\* base_crud_services.create(model, obj_in) with a list
CreateMany(kind, obj_in) ==
    /\ clock <= MaxOps
    /\ Len(store["User"]) + Len(obj_in) <= MaxDocs
    /\ call' = [NoCall EXCEPT !.op = "create", !.kind = kind,
                              !.obj_in = obj_in, !.single = FALSE]
    /\ pre' = store
    /\ clock' = clock + 1
    /\ LET r == create_many(store, kind, obj_in, clock, nextId)
       IN  /\ store' = r.store
           /\ nextId' = r.nextId
           /\ ret' = r.ret

\* base_crud_services.update(model, item_id, filters, update_data, update_method)
Update(kind, item_id, filters, update_data, update_method) ==
    /\ clock <= MaxOps
    /\ call' = [NoCall EXCEPT !.op = "update", !.kind = kind,
                              !.item_id = item_id, !.filters = filters,
                              !.update_data = update_data,
                              !.update_method = update_method]
    /\ pre' = store
    /\ clock' = clock + 1
    /\ LET r == update(store[kind], kind, item_id, filters, update_data,
                       update_method, clock)
       IN  /\ store' = [store EXCEPT ![kind] = r.docs]
           /\ ret' = r.ret
    /\ UNCHANGED nextId

\* base_crud_services.delete(model, item_id, filters)
Delete(kind, item_id, filters) ==
    /\ clock <= MaxOps
    /\ call' = [NoCall EXCEPT !.op = "delete", !.kind = kind,
                              !.item_id = item_id, !.filters = filters]
    /\ pre' = store
    /\ clock' = clock + 1
    /\ LET r == delete(store[kind], item_id, filters)
       IN  /\ store' = [store EXCEPT ![kind] = r.docs]
           /\ ret' = r.ret
    /\ UNCHANGED nextId

Next ==
    \/ \E kind \in Kinds, page \in 1..MaxPage, lim \in 1..MaxLimit :
          \E filters \in Filters(kind) : Get(kind, page, lim, filters)
    \/ \E kind \in Kinds : \E obj_in \in FieldMaps(kind) : Insert(kind, obj_in)
    \/ \E kind \in Kinds : \E obj_in \in FieldMaps(kind) : CreateOne(kind, obj_in)
    \/ \E kind \in Kinds : \E obj_in \in Batches(kind) : CreateMany(kind, obj_in)
    \/ \E kind \in Kinds :
          \E item_id \in ItemIds(kind), filters \in Filters(kind),
             update_data \in Patches(kind),
             update_method \in MethodNames(kind) \cup {NoMethod} :
             Update(kind, item_id, filters, update_data, update_method)
    \/ \E kind \in Kinds :
          \E item_id \in ItemIds(kind), filters \in Filters(kind) :
             Delete(kind, item_id, filters)

Spec == Init /\ [][Next]_vars

-----------------------------------------------------------------------------
(* Properties.  Each is stated on the state after a call: call holds the   *)
(* arguments, ret the outcome, pre the store before and store the store    *)
(* after.                                                                  *)

\* Positions of the documents of a collection that match a filter
MatchingAt(docs, filters) == {i \in 1..Len(docs) : Matches(docs[i], filters)}

\* Position in docs of the n-th matching document
NthMatch(docs, filters, n) ==
    CHOOSE i \in MatchingAt(docs, filters) :
        Cardinality({j \in MatchingAt(docs, filters) : j < i}) = n - 1

\* C1: get returns the matching documents at positions [offset, offset+limit)
\* of the collection's order, offset = (page-1)*limit: at most limit items,
\* none when the offset is at or past the number of matches; total is the
\* number of all matching documents, and page and limit are echoed.
C1_PaginationWindow ==
    call.op = "get" =>
        LET docs == pre[call.kind]
            n == Cardinality(MatchingAt(docs, call.filters))
            offset == (call.page - 1) * call.limit
            expected == IF offset >= n THEN 0 ELSE Min(call.limit, n - offset)
        IN  /\ ret.tag = "PaginationResponse"
            /\ ret.total = n
            /\ ret.page = call.page
            /\ ret.limit = call.limit
            /\ Len(ret.items) = expected
            /\ Len(ret.items) <= call.limit
            /\ \A i \in 1..expected :
                  ret.items[i] = docs[NthMatch(docs, call.filters, offset + i)]
            /\ store = pre

\* A later page of a filtered read that returns a document while some
\* stored document does not match the filter
C1_Witness ==
    /\ call.op = "get"
    /\ call.page >= 2
    /\ IsTruthy(call.filters)
    /\ ret.items # <<>>
    /\ ret.total < Len(pre[call.kind])

\* A read whose offset is past the matches of a non-empty collection
C1_WitnessPastEnd ==
    /\ call.op = "get"
    /\ ret.total > 0
    /\ (call.page - 1) * call.limit >= ret.total
    /\ ret.items = <<>>

\* The document of a collection with a given identifier
DocWithId(docs, id) == docs[IndexOfId(docs, id, 1)]

HasId(docs, id) == IndexOfId(docs, id, 1) # 0

OthersUnchanged(kind) == \A k \in Kinds \ {kind} : store[k] = pre[k]

\* C2: create(T, input) with one valid field-map returns the created entity
\* of kind T and T's collection holds exactly one more entity, equal to the
\* returned one, no other collection changing; with a list of valid
\* field-maps the created entities are stored in T's collection.
C2_CreateStoresInKind ==
    /\ (/\ call.op = "create"
        /\ call.single
        /\ Valid(call.kind, call.obj_in[1])
        /\ ~HasId(pre[call.kind], IdOf(call.obj_in[1])))
       => /\ ret.tag = "entity"
          /\ store[call.kind] = Append(pre[call.kind], ret.item)
          /\ OthersUnchanged(call.kind)
    /\ (/\ call.op = "create"
        /\ ~call.single
        /\ \A i \in 1..Len(call.obj_in) :
              /\ Valid(call.kind, call.obj_in[i])
              /\ "_id" \notin DOMAIN call.obj_in[i])
       => /\ ret.tag # "raise"
          /\ Len(store[call.kind]) = Len(pre[call.kind]) + Len(call.obj_in)
          /\ OthersUnchanged(call.kind)

\* C3: batch create is all-or-nothing: when create with a list fails, the
\* store is as it was before the call.
C3_BatchAllOrNothing ==
    (call.op = "create" /\ ~call.single /\ ret.tag = "raise") => store = pre

\* An update call that supplies an actionable combination of arguments
Actionable ==
    \/ call.update_method # NoMethod
    \/ /\ IsTruthy(call.update_data)
       /\ (call.item_id # NoId \/ IsTruthy(call.filters))

\* C4: update returns the boolean true if at least one entity was modified
\* and the boolean false otherwise, never a non-boolean result.
C4_UpdateReturnsBool ==
    (call.op = "update" /\ Actionable /\ ret.tag # "raise")
       => /\ ret.tag = "bool"
          /\ ret.value = (store[call.kind] # pre[call.kind])

\* The collection with the patch applied to the documents at positions hit
Patched(docs, hit, update_data) ==
    [i \in 1..Len(docs) |->
        IF i \in hit THEN Set(docs[i], update_data) ELSE docs[i]]

\* C5: a patch with an identifier (no method) changes exactly the entity with
\* that identifier; a patch with a filter (no identifier) changes exactly
\* the entities matching the filter.
C5_PatchFrame ==
    (call.op = "update" /\ call.update_method = NoMethod
        /\ IsTruthy(call.update_data))
       => /\ call.item_id # NoId
             => store[call.kind] =
                   Patched(pre[call.kind],
                           {i \in 1..Len(pre[call.kind]) :
                               pre[call.kind][i].id = call.item_id},
                           call.update_data)
          /\ (call.item_id = NoId /\ IsTruthy(call.filters))
             => store[call.kind] =
                   Patched(pre[call.kind],
                           MatchingAt(pre[call.kind], call.filters),
                           call.update_data)
          /\ OthersUnchanged(call.kind)

\* C6: update with a lifecycle-method name and the identifier of an existing
\* entity invokes the method and persists the entity: the stored entity
\* reflects the method's effect (soft_delete: is_deleted and the
\* placeholder content), whatever patch or filter is supplied with it.
C6_MethodPersisted ==
    (/\ call.op = "update"
     /\ call.update_method # NoMethod
     /\ HasMethod(call.kind, call.update_method)
     /\ HasId(pre[call.kind], call.item_id))
       => LET before == DocWithId(pre[call.kind], call.item_id)
              after == DocWithId(store[call.kind], call.item_id)
          IN  /\ HasId(store[call.kind], call.item_id)
              /\ after = Invoke(call.kind, before, call.update_method,
                                after.updated_at)
              /\ call.update_method = "soft_delete"
                    => after.is_deleted /\ after.content = DeletedPlaceholder

\* C7: update with a method name the kind does not define always fails with
\* an error, whether or not the identifier matches, and leaves the store
\* unchanged.
C7_UnknownMethodFails ==
    (/\ call.op = "update"
     /\ call.update_method # NoMethod
     /\ ~HasMethod(call.kind, call.update_method))
       => ret.tag = "raise" /\ store = pre

\* C8: update with no actionable combination of arguments is rejected with
\* an error and leaves the store unchanged.
C8_NoActionRejected ==
    (call.op = "update" /\ ~Actionable) => ret.tag = "raise" /\ store = pre

\* C9: delete with an identifier removes at most the entity with that
\* identifier; delete with a filter removes exactly the matching entities;
\* delete returns true if and only if at least one entity was deleted.
C9_DeleteResult ==
    (call.op = "delete" /\ (call.item_id # NoId \/ IsTruthy(call.filters)))
       => /\ (call.item_id # NoId /\ ~IsTruthy(call.filters))
             => /\ Len(pre[call.kind]) - Len(store[call.kind]) <= 1
                /\ store[call.kind] =
                      IF HasId(pre[call.kind], call.item_id)
                      THEN RemoveAt(pre[call.kind],
                                    IndexOfId(pre[call.kind], call.item_id, 1))
                      ELSE pre[call.kind]
          /\ (call.item_id = NoId /\ IsTruthy(call.filters))
             => /\ \A i \in 1..Len(store[call.kind]) :
                      ~Matches(store[call.kind][i], call.filters)
                /\ \A i \in 1..Len(pre[call.kind]) :
                      ~Matches(pre[call.kind][i], call.filters)
                         => HasId(store[call.kind], pre[call.kind][i].id)
          /\ OthersUnchanged(call.kind)
          /\ ret.tag = "bool"
          /\ ret.value = (Len(store[call.kind]) < Len(pre[call.kind]))

\* Every stored entity satisfies the field constraints of its kind
AllStoredValid ==
    \A k \in Kinds : \A i \in 1..Len(store[k]) : DocValid(k, store[k][i])

\* C10: a create or update whose resulting entity would violate a field
\* constraint fails with a validation error and leaves the store unchanged,
\* hence every stored entity satisfies its kind's field constraints.
C10_ValidationBeforeWrite ==
    /\ AllStoredValid
    /\ (/\ call.op \in {"create", "insert"}
        /\ \E i \in 1..Len(call.obj_in) : ~Valid(call.kind, call.obj_in[i]))
       => ret = Raise("ValidationError") /\ store = pre
    /\ (/\ call.op = "update"
        /\ \E i \in 1..Len(pre[call.kind]) :
              /\ IsTruthy(call.update_data)
              /\ \/ pre[call.kind][i].id = call.item_id
                 \/ (IsTruthy(call.filters)
                       /\ Matches(pre[call.kind][i], call.filters))
              /\ ~DocValid(call.kind, Set(pre[call.kind][i], call.update_data)))
       => ret.tag = "raise" /\ ret.error = "ValidationError" /\ store = pre

\* C11: an Article's published_at is set exactly once.  After every call,
\* for every stored article: it is stamped if its status is published (the
\* first write with status = published stamps it, with the time of that
\* write); it is unset unless the article is, or was before the call,
\* stamped as published; and once set it keeps its value through every
\* later write, whatever happens to status.
C11_PublishedAtOnce ==
    \A i \in 1..Len(store["Article"]) :
        LET a == store["Article"][i]
            old == HasId(pre["Article"], a.id)
            b == DocWithId(pre["Article"], a.id)
        IN  /\ a.status = "published" => a.published_at # NoTime
            /\ a.published_at # NoTime
                  => \/ a.status = "published"
                     \/ old /\ b.published_at = a.published_at
            /\ (old /\ b.published_at # NoTime)
                  => a.published_at = b.published_at
            /\ (a.published_at # NoTime /\ ~(old /\ b.published_at # NoTime))
                  => a.published_at = clock - 1

\* C12: a Comment's is_edited is false after its first insert, and true on
\* every comment that an update call has written after that creation.
C12_EditedAfterCreation ==
    /\ (call.op = "insert" /\ call.kind = "Comment" /\ ret.tag = "entity")
          => /\ ~ret.item.is_edited
             /\ ~DocWithId(store["Comment"], ret.item.id).is_edited
    /\ (call.op = "update" /\ call.kind = "Comment")
          => \A i \in 1..Len(store["Comment"]) :
                LET c == store["Comment"][i]
                IN  (HasId(pre["Comment"], c.id)
                        /\ DocWithId(pre["Comment"], c.id) # c)
                       => c.is_edited

\* The document in memory on which the last update call invoked its method
MethodItem ==
    update(pre[call.kind], call.kind, call.item_id, call.filters,
           call.update_data, call.update_method, clock - 1).item[1]

\* An update call that invoked soft_delete on a stored comment
SoftDeleted ==
    /\ call.op = "update"
    /\ call.kind = "Comment"
    /\ call.update_method = "soft_delete"
    /\ HasId(pre["Comment"], call.item_id)

\* C13: soft_delete sets is_deleted and replaces the content of the comment
\* with "[This comment has been deleted]", keeping its identifier, article,
\* author and parent_comment; the record is not removed, and the comments
\* whose parent_comment references it are unchanged and are still its
\* replies.
C13_SoftDeleteFrame ==
    SoftDeleted
       => LET c == DocWithId(pre["Comment"], call.item_id)
          IN  /\ MethodItem.is_deleted
              /\ MethodItem.content =
                    << "[", "T", "h", "i", "s", " ",
                       "c", "o", "m", "m", "e", "n", "t", " ",
                       "h", "a", "s", " ", "b", "e", "e", "n", " ",
                       "d", "e", "l", "e", "t", "e", "d", "]" >>
              /\ MethodItem.id = c.id
              /\ MethodItem.article = c.article
              /\ MethodItem.author = c.author
              /\ MethodItem.parent_comment = c.parent_comment
              /\ HasId(store["Comment"], c.id)
              /\ replies(store["Comment"], c.id) = replies(pre["Comment"], c.id)
              /\ \A i \in 1..Len(pre["Comment"]) :
                    pre["Comment"][i].parent_comment = c.id
                       => \E j \in 1..Len(replies(store["Comment"], c.id)) :
                             replies(store["Comment"], c.id)[j]
                                = pre["Comment"][i]

\* soft_delete was invoked on a stored comment that was not deleted and
\* has a reply
C13_Witness ==
    /\ SoftDeleted
    /\ replies(pre["Comment"], call.item_id) # <<>>
    /\ ~DocWithId(pre["Comment"], call.item_id).is_deleted
    /\ MethodItem.is_deleted

====
